---------------------------- MODULE Spec2Model ----------------------------
(***************************************************************************)
(* State-machine model of imgConstellation/imgGen.py: the two image        *)
(* generators grayscale (histogram binning) and enhancedGrayscale          *)
(* (exponential-decay kernel).  One behaviour is one invocation: the       *)
(* arguments are fixed by Init and every action is one statement, or one   *)
(* loop iteration, of the function that was called.                        *)
(*                                                                         *)
(* Numbers.  The sample array is held run-length encoded: an element       *)
(* [re, im, n] stands for n consecutive equal entries re + im*j of the     *)
(* numpy array.  Every array statement of the source is elementwise, so    *)
(* it maps runs to runs.  Mapped coordinates are float64 values; they are  *)
(* held exactly, as a count of quarter pixels, together with the three     *)
(* non-finite values a division by zero produces.  All inputs are drawn    *)
(* so that every finite coordinate is a multiple of 1/4 (a dyadic          *)
(* rational, which float64 represents exactly).                            *)
(***************************************************************************)
EXTENDS Integers, Sequences, FiniteSets, TLC

\* Longest run-length-encoded sample sequence drawn for the standard geometry.
MaxLen == 3

VARIABLES
    variant,        \* which function was called
    symbols,        \* argument: the samples (run-length encoded)
    i_range,        \* argument: <<i_min, i_max>>
    q_range,        \* argument: <<q_min, q_max>>
    img_resolution, \* argument: <<W, H>>
    power,          \* argument of enhancedGrayscale
    decay,          \* argument of enhancedGrayscale
    pc,             \* the statement about to run, or "done" / "error"
    x_samples,      \* local array
    y_samples,      \* local array
    i,              \* loop index of the binning loop; sample index of the kernel loop
    pix,            \* kernel loop: <<x, y>> of the pixel being accumulated
    bin_grid,       \* local uint16 array
    power_grid,     \* local float64 array
    img_grid,       \* local uint8 array
    error,          \* the exception that ended the invocation, or "none"
    writer_calls,   \* how many times img.save has been called
    file,           \* what the writer persisted: <<>> (nothing) or <<raster>>
    steps           \* history: the statements completed so far

vars == <<variant, symbols, i_range, q_range, img_resolution, power, decay, pc,
          x_samples, y_samples, i, pix, bin_grid, power_grid, img_grid, error,
          writer_calls, file, steps>>

args == <<variant, symbols, i_range, q_range, img_resolution, power, decay>>

Abs(a) == IF a < 0 THEN -a ELSE a

(***************************************************************************)
(* float64 coordinate values: finite (v quarter pixels), +inf, -inf, nan.  *)
(* n is the length of the run the value stands for.                        *)
(***************************************************************************)
Fin(v, n) == [k |-> "fin", v |-> v, n |-> n]

PosInf(n) == [k |-> "inf", v |-> 0, n |-> n]

NegInf(n) == [k |-> "ninf", v |-> 0, n |-> n]

NaN(n) == [k |-> "nan", v |-> 0, n |-> n]

\* numpy's true division of a float64 by a Python int: a zero divisor gives
\* +inf, -inf or nan (with a RuntimeWarning), never an exception.
TrueDivide(num, den, n) ==
    IF den = 0
    THEN (IF num > 0 THEN PosInf(n) ELSE IF num < 0 THEN NegInf(n) ELSE NaN(n))
    ELSE IF den > 0 THEN Fin((4 * num) \div den, n)
    ELSE Fin((-(4 * num)) \div (-den), n)

\* y_samples = (i_samples + np.abs(i_range[0])) * img_resolution[1] / (i_range[1] - i_range[0])
MapY(s, ir, res) ==
    TrueDivide((s.re + Abs(ir[1])) * res[2], ir[2] - ir[1], s.n)

\* the Q axis without its flip
MapXUnflipped(s, qr, res) ==
    TrueDivide((s.im - qr[1]) * res[1], qr[2] - qr[1], s.n)

\* x_samples = - (q_samples - q_range[1]) * img_resolution[0] / (q_range[1] - q_range[0])
MapX(s, qr, res) ==
    TrueDivide((-(s.im - qr[2])) * res[1], qr[2] - qr[1], s.n)

MapAllY(syms, ir, res) == [j \in 1..Len(syms) |-> MapY(syms[j], ir, res)]

MapAllX(syms, qr, res) == [j \in 1..Len(syms) |-> MapX(syms[j], qr, res)]

\* np.floor on one value
FloorVal(c) == IF c.k = "fin" THEN Fin(4 * (c.v \div 4), c.n) ELSE c

FloorAll(cs) == [j \in 1..Len(cs) |-> FloorVal(cs[j])]

\* x > W instead of x >= W
GreaterStrict(c, limit) == c.k = "inf" \/ (c.k = "fin" /\ c.v > 4 * limit)

\* value >= limit, as numpy compares: nan compares false
GreaterEqual(c, limit) == c.k = "inf" \/ (c.k = "fin" /\ c.v >= 4 * limit)

\* x_mask = x_samples >= img_resolution[0]
Mask(cs, limit) == [j \in 1..Len(cs) |-> GreaterEqual(cs[j], limit)]

\* np.delete(arr, mask) with a boolean mask: the entries whose mask is True are removed.
DeleteFrom(cs, mask, j) ==
    LET RECURSIVE Go(_)
        Go(m) == IF m > Len(cs) THEN <<>>
                 ELSE (IF mask[m] THEN <<>> ELSE <<cs[m]>>) \o Go(m + 1)
    IN Go(j)

\* the mask read as the indices 0 and 1, as numpy before 1.19 read it
DeleteByIndex(cs, mask) ==
    LET drop == {IF mask[j] THEN 2 ELSE 1 : j \in DOMAIN mask}
        keep[j \in 0..Len(cs)] ==
            IF j = 0 THEN <<>>
            ELSE IF j \in drop THEN keep[j - 1] ELSE Append(keep[j - 1], cs[j])
    IN keep[Len(cs)]

Delete(cs, mask) == DeleteFrom(cs, mask, 1)

\* lines 26-27 and 82-83: <<x_samples, y_samples>> after the mapping
StageMap(syms, ir, qr, res) == <<MapAllX(syms, qr, res), MapAllY(syms, ir, res)>>

\* lines 29-30
StageFloor(xy) == <<FloorAll(xy[1]), FloorAll(xy[2])>>

\* lines 33-35 and 87-89: x_mask is taken from x_samples and deletes from both arrays
StageMaskX(xy, res) ==
    LET x_mask == Mask(xy[1], res[1])
    IN <<Delete(xy[1], x_mask), Delete(xy[2], x_mask)>>

\* lines 37-39 and 91-93: y_mask is taken from the already shortened y_samples
StageMaskY(xy, res) ==
    LET y_mask == Mask(xy[2], res[2])
    IN <<Delete(xy[1], y_mask), Delete(xy[2], y_mask)>>

(***************************************************************************)
(* uint16 and uint8 arithmetic of the grids.                               *)
(***************************************************************************)
\* dtype='uint16': bin_grid[...] += 1 wraps modulo 2^16
UInt16Modulus == 65536

\* the 8-bit full scale of "(grid / np.max(grid)) * 255"
FullScale == 255

(***************************************************************************)
(* float64 arithmetic of power_grid.  A finite non-negative float64 is     *)
(* held exactly as a natural number of quanta, written in five limbs of    *)
(* twenty bits, least significant limb first.  Cells of power_grid count   *)
(* quanta of 2^-74, quotients cell/max count quanta of 2^-80; every value  *)
(* the model produces is a whole number of its quanta (the smallest        *)
(* kernel term is above 2^-22, whose unit in the last place is 2^-74).     *)
(* The empty tuple stands for nan.  Each operation is the IEEE-754 one:    *)
(* the exact result rounded to 53 significant bits, ties to even.          *)
(***************************************************************************)
Base == 2^20

Zero == <<0, 0, 0, 0, 0>>

\* 1.0 in quanta of 2^-74
One == <<0, 0, 0, 2^14, 0>>

FNaN == <<>>

IsNaN(a) == Len(a) = 0

Limbs == DOMAIN Zero

NL == Len(Zero)

\* float64 has 53 significant bits
MantissaBits == 53

Limb(a, k) == IF k \in Limbs THEN a[k] ELSE 0

RECURSIVE AddC(_, _, _, _)
AddC(a, b, k, c) ==
    IF k > NL THEN <<>>
    ELSE LET s == a[k] + b[k] + c IN <<s % Base>> \o AddC(a, b, k + 1, s \div Base)

BAdd(a, b) == AddC(a, b, 1, 0)

RECURSIVE SubC(_, _, _, _)
SubC(a, b, k, c) ==
    IF k > NL THEN <<>>
    ELSE LET s == a[k] - b[k] - c
         IN IF s < 0 THEN <<s + Base>> \o SubC(a, b, k + 1, 1)
            ELSE <<s>> \o SubC(a, b, k + 1, 0)

BSub(a, b) == SubC(a, b, 1, 0)

RECURSIVE MulC(_, _, _, _)
MulC(a, f, k, c) ==
    IF k > NL THEN <<>>
    ELSE LET s == a[k] * f + c IN <<s % Base>> \o MulC(a, f, k + 1, s \div Base)

BMul(a, f) == MulC(a, f, 1, 0)

RECURSIVE GEFrom(_, _, _)
GEFrom(a, b, k) ==
    IF k = 0 THEN TRUE
    ELSE IF a[k] # b[k] THEN a[k] > b[k]
    ELSE GEFrom(a, b, k - 1)

BGE(a, b) == GEFrom(a, b, NL)

ShiftRight(a, s) ==
    LET ls == s \div 20
        bs == s % 20
    IN [k \in Limbs |-> (Limb(a, k + ls) \div 2^bs)
                        + (Limb(a, k + ls + 1) % 2^bs) * 2^(20 - bs)]

ShiftLeft(a, s) ==
    LET ls == s \div 20
        bs == s % 20
    IN [k \in Limbs |-> (Limb(a, k - ls) % 2^(20 - bs)) * 2^bs
                        + (Limb(a, k - ls - 1) \div 2^(20 - bs))]

BitLen(a) ==
    IF a = Zero THEN 0
    ELSE LET t == CHOOSE k \in Limbs : a[k] # 0 /\ \A m \in Limbs : m > k => a[m] = 0
             b == CHOOSE c \in 1..20 : 2^(c - 1) <= a[t] /\ a[t] < 2^c
         IN 20 * (t - 1) + b

\* round to nearest, ties to even, to 53 significant bits; inexact says that
\* the exact value lies strictly above a
Round53(a, inexact) ==
    LET len == BitLen(a)
    IN IF len <= MantissaBits THEN a
       ELSE LET s == len - MantissaBits
                q == ShiftRight(a, s)
                half == (Limb(a, (s - 1) \div 20 + 1) \div 2^((s - 1) % 20)) % 2
                rest == inexact \/ ShiftLeft(ShiftRight(a, s - 1), s - 1) # a
                up == half = 1 /\ (rest \/ q[1] % 2 = 1)
            IN ShiftLeft(IF up THEN BAdd(q, <<1, 0, 0, 0, 0>>) ELSE q, s)

\* float64 a + b
FAdd(a, b) == IF IsNaN(a) \/ IsNaN(b) THEN FNaN ELSE Round53(BAdd(a, b), FALSE)

Double(a) == BAdd(a, a)

\* n steps of restoring division on rq = <<remainder, quotient>>
RECURSIVE DivBits(_, _, _)
DivBits(rq, m, n) ==
    IF n = 0 THEN rq
    ELSE IF BGE(rq[1], m)
    THEN DivBits(<<Double(BSub(rq[1], m)), BAdd(Double(rq[2]), <<1, 0, 0, 0, 0>>)>>, m, n - 1)
    ELSE DivBits(<<Double(rq[1]), Double(rq[2])>>, m, n - 1)

RoundQuotient(rq) == Round53(rq[2], rq[1] # Zero)

\* float64 c / m for 0 <= c <= m, m > 0, in quanta of 2^-80: 81 steps of restoring
\* division yield floor(c * 2^80 / m) and the remainder, then the quotient is rounded
FDiv(c, m) ==
    RoundQuotient(DivBits(DivBits(DivBits(DivBits(<<c, Zero>>, m, 21), m, 20), m, 20), m, 20))

\* floor((cell / max) * 255) of one float64 cell
ScaleFloor(c, m) == Round53(BMul(FDiv(c, m), FullScale), FALSE)[NL]

(***************************************************************************)
(* The kernel term power * np.exp(-decay * centroid_distance).             *)
(* centroid_distance = sqrt(dx^2 + dy^2) with dx, dy exact multiples of    *)
(* 1/4, so dx^2 + dy^2 is exact and equals n/16 for the integer            *)
(* n = (4 dx)^2 + (4 dy)^2.  For decay = 2 the table lists                 *)
(* exp(-2 * sqrt(n/16)) as float64 (sqrt and exp correctly rounded), in    *)
(* quanta of 2^-74, for the distances the drawn inputs produce.  For       *)
(* decay = 4096 and n > 0 the argument is at most -1024 and exp underflows *)
(* to 0.0; exp(-0.0) = 1.0.                                                *)
(***************************************************************************)
ExpTable ==
    0 :> <<0, 0, 0, 16384, 0>> @@
    1 :> <<0, 994324, 417677, 9937, 0>> @@
    4 :> <<0, 847672, 353122, 6027, 0>> @@
    5 :> <<0, 554213, 302339, 5356, 0>> @@
    8 :> <<524288, 22091, 235486, 3983, 0>> @@
    13 :> <<0, 113008, 786712, 2700, 0>> @@
    16 :> <<0, 1032422, 349469, 2217, 0>> @@
    17 :> <<0, 319710, 1012679, 2084, 0>> @@
    20 :> <<262144, 527123, 92205, 1751, 0>> @@
    32 :> <<131072, 1003556, 407425, 968, 0>> @@
    36 :> <<917504, 644629, 745881, 815, 0>> @@
    37 :> <<655360, 814444, 676375, 782, 0>> @@
    40 :> <<524288, 825719, 547287, 693, 0>> @@
    45 :> <<524288, 835384, 491767, 572, 0>> @@
    52 :> <<393216, 363149, 203008, 445, 0>> @@
    64 :> <<262144, 136143, 87480, 300, 0>> @@
    65 :> <<262144, 182446, 929104, 290, 0>> @@
    68 :> <<720896, 807571, 340623, 265, 0>> @@
    80 :> <<32768, 1018014, 160060, 187, 0>> @@
    100 :> <<884736, 13645, 413688, 110, 0>> @@
    104 :> <<229376, 247399, 1035032, 99, 0>> @@
    109 :> <<950272, 217168, 608283, 88, 0>> @@
    116 :> <<851968, 711773, 110776, 75, 0>> @@
    144 :> <<704512, 141225, 641598, 40, 0>> @@
    145 :> <<1024000, 90177, 813675, 39, 0>> @@
    148 :> <<172032, 811373, 404816, 37, 0>> @@
    160 :> <<958464, 99948, 373547, 29, 0>> @@
    164 :> <<999424, 371478, 144741, 27, 0>> @@
    196 :> <<817152, 922196, 985948, 14, 0>> @@
    200 :> <<778240, 526053, 959816, 13, 0>> @@
    256 :> <<963584, 66569, 520324, 5, 0>> @@
    260 :> <<308224, 941155, 172460, 5, 0>> @@
    676 :> <<60608, 171468, 38832, 0, 0>> @@
    680 :> <<721120, 100544, 37369, 0, 0>> @@
    900 :> <<519224, 379426, 5255, 0, 0>> @@
    904 :> <<795710, 270996, 5083, 0, 0>>

ExpNeg(dc, n) ==
    IF n = 0 THEN One
    ELSE IF dc = 4096 THEN Zero
    ELSE ExpTable[n]

\* power * w for a float64 w and an integer power (exact for power 1 and 2)
Scale(pw, w) == Round53(BMul(w, pw), FALSE)

\* the term one run (xs, ys) adds to the pixel <<px, py>>, whose centroid is
\* <<px + 0.5, py + 0.5>>; a nan coordinate gives nan, an infinite one a
\* distance of inf, exp(-inf) = 0.0
KernelTerm(pw, dc, p, xs, ys) ==
    IF xs.k = "nan" \/ ys.k = "nan" THEN FNaN
    ELSE IF xs.k # "fin" \/ ys.k # "fin" THEN Zero
    ELSE LET a == (4 * p[1] + 2) - xs.v
             b == (4 * p[2] + 2) - ys.v
         IN Scale(pw, ExpNeg(dc, a * a + b * b))

\* power_grid[x, y] += term, once per entry of the run
RECURSIVE AddTimes(_, _, _)
AddTimes(acc, w, n) == IF n = 0 THEN acc ELSE AddTimes(FAdd(acc, w), w, n - 1)

AccCell(acc, pw, dc, p, xs, ys) == AddTimes(acc, KernelTerm(pw, dc, p, xs, ys), xs.n)

AccStep(grid, pw, dc, p, xs, ys) ==
    [grid EXCEPT ![p] = AccCell(@, pw, dc, p, xs, ys)]

(***************************************************************************)
(* Grids: functions on the pixel indices <<x, y>>, 0 <= x < W, 0 <= y < H. *)
(***************************************************************************)
Pixels(res) == (0..(res[1] - 1)) \X (0..(res[2] - 1))

ZeroGrid(res, z) == [p \in Pixels(res) |-> z]

\* astype(int) of a floored float64.  -inf becomes the most negative int64;
\* only its being below every axis length matters, so a stand-in is used.
IntMin == -(2^30)

\* The conversion of nan to an integer is undefined in C: x86-64 yields the
\* most negative int64, aarch64 yields 0.
NaNAsInt == {IntMin, 0}

CastVal(c, nanAs) ==
    [v |-> IF c.k = "fin" THEN c.v \div 4
           ELSE IF c.k = "nan" THEN nanAs
           ELSE IntMin,
     n |-> c.n]

CastAll(cs, nanAs) == [j \in 1..Len(cs) |-> CastVal(cs[j], nanAs)]

\* lines 41-42
StageCast(xy, nanAs) == <<CastAll(xy[1], nanAs), CastAll(xy[2], nanAs)>>

\* numpy indexing of an axis of length d: -d <= j < d, negative j counts from the end
IndexOK(j, d) == -d <= j /\ j < d

Wrap(j, d) == IF j < 0 THEN j + d ELSE j

CanIndex(xe, ye, res) == IndexOK(xe.v, res[1]) /\ IndexOK(ye.v, res[2])

\* bin_grid[x_samples[i], y_samples[i]] += 1 for the xe.n entries of a run
BinStep(grid, xe, ye, res) ==
    [grid EXCEPT ![<<Wrap(xe.v, res[1]), Wrap(ye.v, res[2])>>] = (@ + xe.n) % UInt16Modulus]

\* np.max of a uint16 grid
MaxInt(grid) == CHOOSE m \in {grid[p] : p \in DOMAIN grid} : \A p \in DOMAIN grid : grid[p] <= m

HasNaN(grid) == \E p \in DOMAIN grid : IsNaN(grid[p])

\* np.max of a float64 grid without nan
MaxFloat(grid) == CHOOSE m \in {grid[p] : p \in DOMAIN grid} : \A p \in DOMAIN grid : BGE(m, grid[p])

\* The conversion of a float64 nan to uint8 (np.copyto, casting='unsafe') is
\* undefined in C; the byte is drawn from both ends and the middle of the range.
NaNAsUInt8 == {0, 128, 255}

\* (bin_grid / np.max(bin_grid)) * 255 copied to uint8.  A zero maximum makes
\* every cell 0/0 = nan.  Otherwise the float64 quotient times 255, truncated,
\* equals floor(255 * cell / max) for all uint16 cell <= max.
NormalizeBin(grid) ==
    LET m == MaxInt(grid)
    IN IF m = 0 THEN {[p \in DOMAIN grid |-> g] : g \in NaNAsUInt8}
       ELSE {[p \in DOMAIN grid |-> (FullScale * grid[p]) \div m]}

\* np.floor((power_grid / np.max(power_grid)) * 255) copied to uint8.  np.max
\* propagates nan, and a zero maximum makes every cell nan.
NormalizeKernel(grid) ==
    IF HasNaN(grid) \/ MaxFloat(grid) = Zero
    THEN {[p \in DOMAIN grid |-> g] : g \in NaNAsUInt8}
    ELSE {[p \in DOMAIN grid |-> ScaleFloor(grid[p], MaxFloat(grid))]}

(***************************************************************************)
(* The arguments an invocation is drawn from.                              *)
(***************************************************************************)
Variants == {"grayscale", "enhancedGrayscale"}

Run(re, im, n) == [re |-> re, im |-> im, n |-> n]

SeqsUpTo(S, len) == UNION {[1..m -> S] : m \in 0..len}

Args(v, syms, ir, qr, res, pw, dc) ==
    [variant |-> v, symbols |-> syms, i_range |-> ir, q_range |-> qr,
     img_resolution |-> res, power |-> pw, decay |-> dc]

\* W # H in the first, so that a swapped axis shows
Resolutions == {<<1, 2>>, <<2, 2>>}

\* In the window (-2, 2): three samples inside, one on the excluded edge i = i_max.
StandardSamples == {Run(-1, 0, 1), Run(0, -1, 1), Run(1, 0, 1), Run(2, 0, 1)}

\* Sample sequences of every length up to MaxLen in the window (-2, 2) x (-2, 2).
StandardArgs ==
    {Args(v, syms, <<-2, 2>>, <<-2, 2>>, res, 1, 2) :
        v \in Variants, syms \in SeqsUpTo(StandardSamples, MaxLen), res \in Resolutions}

\* Samples inside, on each excluded edge, below zero on each axis, and far below.
GeometrySamples ==
    {Run(0, 0, 1), Run(1, -1, 1), Run(-1, 1, 1), Run(2, 0, 1), Run(0, -2, 1),
     Run(-3, 0, 1), Run(0, 3, 1), Run(-7, 0, 1)}

\* A usual range, one with i_min > 0, one with min > max, one with min = max.
IRanges == {<<-2, 2>>, <<1, 3>>, <<2, -2>>, <<0, 0>>}

QRanges == {<<-2, 2>>, <<0, 0>>}

Powers == {1, 2}

Decays == {2, 4096}

\* At most one sample, under every combination of ranges.
GeometryArgs ==
    {Args("grayscale", syms, ir, qr, res, 1, 2) :
        syms \in SeqsUpTo(GeometrySamples, 1), ir \in IRanges, qr \in QRanges,
        res \in Resolutions}
    \cup
    {Args("enhancedGrayscale", syms, ir, qr, res, pd[1], pd[2]) :
        syms \in SeqsUpTo(GeometrySamples, 1), ir \in IRanges, qr \in QRanges,
        res \in Resolutions, pd \in Powers \X Decays}

\* Long runs of one sample: around the capacity of a uint16 counter.
LongRuns == {Run(0, 0, n) : n \in {2, UInt16Modulus - 1, UInt16Modulus, UInt16Modulus + 1}}
            \cup {Run(1, -1, 1)}

LongArgs ==
    {Args("grayscale", syms, <<-2, 2>>, <<-2, 2>>, <<2, 2>>, 1, 2) :
        syms \in SeqsUpTo(LongRuns, 2)}

\* samples = [3+3j], ranges (-7, 7), resolution (14, 14), binning
ScenarioArgs == {Args("grayscale", <<Run(3, 3, 1)>>, <<-7, 7>>, <<-7, 7>>, <<14, 14>>, 1, 2)}

AllArgs == StandardArgs \cup GeometryArgs \cup LongArgs \cup ScenarioArgs

(***************************************************************************)
(* The invocation.                                                         *)
(***************************************************************************)
Init ==
    /\ \E a \in AllArgs :
        /\ variant = a.variant
        /\ symbols = a.symbols
        /\ i_range = a.i_range
        /\ q_range = a.q_range
        /\ img_resolution = a.img_resolution
        /\ power = a.power
        /\ decay = a.decay
    /\ pc = "map"
    /\ x_samples = <<>>
    /\ y_samples = <<>>
    /\ i = 0
    /\ pix = <<0, 0>>
    /\ bin_grid = <<>>
    /\ power_grid = <<>>
    /\ img_grid = <<>>
    /\ error = "none"
    /\ writer_calls = 0
    /\ file = <<>>
    /\ steps = <<>>

\* lines 23-27 and 79-83: the samples mapped to the continuous image plane
Map ==
    /\ pc = "map"
    /\ LET xy == StageMap(symbols, i_range, q_range, img_resolution)
       IN x_samples' = xy[1] /\ y_samples' = xy[2]
    /\ pc' = IF variant = "grayscale" THEN "floor" ELSE "mask_x"
    /\ steps' = Append(steps, "map")
    /\ UNCHANGED <<args, i, pix, bin_grid, power_grid, img_grid, error, writer_calls, file>>

\* lines 29-30 (grayscale only)
Floor ==
    /\ pc = "floor"
    /\ LET xy == StageFloor(<<x_samples, y_samples>>)
       IN x_samples' = xy[1] /\ y_samples' = xy[2]
    /\ pc' = "mask_x"
    /\ steps' = Append(steps, "floor")
    /\ UNCHANGED <<args, i, pix, bin_grid, power_grid, img_grid, error, writer_calls, file>>

\* lines 33-35 and 87-89
MaskX ==
    /\ pc = "mask_x"
    /\ LET xy == StageMaskX(<<x_samples, y_samples>>, img_resolution)
       IN x_samples' = xy[1] /\ y_samples' = xy[2]
    /\ pc' = "mask_y"
    /\ steps' = Append(steps, "mask_x")
    /\ UNCHANGED <<args, i, pix, bin_grid, power_grid, img_grid, error, writer_calls, file>>

\* lines 37-39 and 91-93
MaskY ==
    /\ pc = "mask_y"
    /\ LET xy == StageMaskY(<<x_samples, y_samples>>, img_resolution)
       IN x_samples' = xy[1] /\ y_samples' = xy[2]
    /\ pc' = IF variant = "grayscale" THEN "cast" ELSE "setup"
    /\ steps' = Append(steps, "mask_y")
    /\ UNCHANGED <<args, i, pix, bin_grid, power_grid, img_grid, error, writer_calls, file>>

\* lines 41-46: the casts to int, samples_num, and the zeroed bin_grid
Cast ==
    /\ pc = "cast"
    /\ \E nanAs \in NaNAsInt :
        LET xy == StageCast(<<x_samples, y_samples>>, nanAs)
        IN x_samples' = xy[1] /\ y_samples' = xy[2]
    /\ bin_grid' = ZeroGrid(img_resolution, 0)
    /\ i' = 1
    /\ pc' = IF Len(x_samples) = 0 THEN "normalize" ELSE "bin"
    /\ steps' = Append(steps, "cast")
    /\ UNCHANGED <<args, pix, power_grid, img_grid, error, writer_calls, file>>

\* lines 48-49: the iterations of the binning loop over one run
Bin ==
    /\ pc = "bin"
    /\ CanIndex(x_samples[i], y_samples[i], img_resolution)
    /\ bin_grid' = BinStep(bin_grid, x_samples[i], y_samples[i], img_resolution)
    /\ i' = i + 1
    /\ pc' = IF i = Len(x_samples) THEN "normalize" ELSE "bin"
    /\ steps' = IF i = Len(x_samples) THEN Append(steps, "bin") ELSE steps
    /\ UNCHANGED <<args, x_samples, y_samples, pix, power_grid, img_grid, error,
                   writer_calls, file>>

\* line 49 with an index outside the grid: numpy raises IndexError
BinIndexError ==
    /\ pc = "bin"
    /\ ~CanIndex(x_samples[i], y_samples[i], img_resolution)
    /\ pc' = "error"
    /\ error' = "IndexError"
    /\ UNCHANGED <<args, x_samples, y_samples, i, pix, bin_grid, power_grid, img_grid,
                   writer_calls, file, steps>>

\* lines 95-102: samples_num, the zeroed power_grid, the centroids
Setup ==
    /\ pc = "setup"
    /\ power_grid' = ZeroGrid(img_resolution, Zero)
    /\ pix' = <<0, 0>>
    /\ i' = 1
    /\ pc' = IF Len(x_samples) = 0 THEN "normalize" ELSE "accumulate"
    /\ steps' = Append(steps, "setup")
    /\ UNCHANGED <<args, x_samples, y_samples, bin_grid, img_grid, error, writer_calls, file>>

\* the pixel after p in "for x ...: for y ...:", or <<W, 0>> after the last one
NextPixel(p, res) == IF p[2] + 1 < res[2] THEN <<p[1], p[2] + 1>> ELSE <<p[1] + 1, 0>>

\* lines 105-113: the innermost loop body for one pixel and one run
Accumulate ==
    /\ pc = "accumulate"
    /\ power_grid' = AccStep(power_grid, power, decay, pix, x_samples[i], y_samples[i])
    /\ LET lastSample == i = Len(x_samples)
           np == NextPixel(pix, img_resolution)
           lastPixel == np[1] = img_resolution[1]
       IN /\ i' = IF lastSample THEN 1 ELSE i + 1
          /\ pix' = IF lastSample /\ ~lastPixel THEN np ELSE pix
          /\ pc' = IF lastSample /\ lastPixel THEN "normalize" ELSE "accumulate"
          /\ steps' = IF lastSample /\ lastPixel THEN Append(steps, "accumulate") ELSE steps
    /\ UNCHANGED <<args, x_samples, y_samples, bin_grid, img_grid, error, writer_calls, file>>

\* lines 52-55 and 117-122
Normalize ==
    /\ pc = "normalize"
    /\ img_grid' \in (IF variant = "grayscale" THEN NormalizeBin(bin_grid)
                      ELSE NormalizeKernel(power_grid))
    /\ pc' = "save"
    /\ steps' = Append(steps, "normalize")
    /\ UNCHANGED <<args, x_samples, y_samples, i, pix, bin_grid, power_grid, error,
                   writer_calls, file>>

\* the writer invoked a second time
SaveTwice ==
    /\ pc = "save"
    /\ writer_calls' = writer_calls + 2
    /\ file' = <<img_grid>>
    /\ pc' = "done"
    /\ steps' = Append(steps, "save")
    /\ UNCHANGED <<args, x_samples, y_samples, i, pix, bin_grid, power_grid, img_grid, error>>

\* lines 57-61 and 124-128: the raster is handed to the image writer, which persists it
Save ==
    /\ pc = "save"
    /\ writer_calls' = writer_calls + 1
    /\ file' = <<img_grid>>
    /\ pc' = "done"
    /\ steps' = Append(steps, "save")
    /\ UNCHANGED <<args, x_samples, y_samples, i, pix, bin_grid, power_grid, img_grid, error>>

\* lines 61 and 128: img.save raises (a destination it cannot write); nothing is
\* persisted and the exception leaves the function
SaveFails ==
    /\ pc = "save"
    /\ writer_calls' = writer_calls + 1
    /\ pc' = "error"
    /\ error' = "ImageWriteError"
    /\ UNCHANGED <<args, x_samples, y_samples, i, pix, bin_grid, power_grid, img_grid,
                   file, steps>>

Next ==
    \/ Map
    \/ Floor
    \/ MaskX
    \/ MaskY
    \/ Cast
    \/ Bin
    \/ BinIndexError
    \/ Setup
    \/ Accumulate
    \/ Normalize
    \/ Save
    \/ SaveFails

Spec == Init /\ [][Next]_vars

(***************************************************************************)
(* The invocation as a function of its arguments: the stages composed, and *)
(* the two loops run to their end.                                         *)
(***************************************************************************)
CurArgs == Args(variant, symbols, i_range, q_range, img_resolution, power, decay)

\* <<x_samples, y_samples>> as the loop reads them (lines 23-42, 79-93)
Kept(a, nanAs) ==
    LET m == StageMap(a.symbols, a.i_range, a.q_range, a.img_resolution)
        f == IF a.variant = "grayscale" THEN StageFloor(m) ELSE m
        k == StageMaskY(StageMaskX(f, a.img_resolution), a.img_resolution)
    IN IF a.variant = "grayscale" THEN StageCast(k, nanAs) ELSE k

\* lines 46-49: the binning loop from run j on; it stops at the first IndexError
RECURSIVE BinFrom(_, _, _, _)
BinFrom(grid, xy, j, res) ==
    IF j > Len(xy[1]) THEN [error |-> "none", grid |-> grid]
    ELSE IF ~CanIndex(xy[1][j], xy[2][j], res) THEN [error |-> "IndexError", grid |-> grid]
    ELSE BinFrom(BinStep(grid, xy[1][j], xy[2][j], res), xy, j + 1, res)

BinLoop(xy, res) == BinFrom(ZeroGrid(res, 0), xy, 1, res)

\* lines 108-113: the sample loop of one pixel from run j on
RECURSIVE AccFrom(_, _, _, _, _, _)
AccFrom(acc, pw, dc, p, xy, j) ==
    IF j > Len(xy[1]) THEN acc
    ELSE AccFrom(AccCell(acc, pw, dc, p, xy[1][j], xy[2][j]), pw, dc, p, xy, j + 1)

\* lines 98-113
AccLoop(xy, pw, dc, res) == [p \in Pixels(res) |-> AccFrom(Zero, pw, dc, p, xy, 1)]

(***************************************************************************)
(* Vocabulary of the properties.                                           *)
(***************************************************************************)
Gray == variant = "grayscale"

W == img_resolution[1]

H == img_resolution[2]

\* the accumulation loop has run to its end
Accumulated == pc \in {"normalize", "save", "done"} \/ (pc = "error" /\ error = "ImageWriteError")

\* a raster has been produced
Rastered == pc \in {"save", "done"} \/ (pc = "error" /\ error = "ImageWriteError")

\* the number of array entries the boundary filter kept (valid once it has run)
KeptCount == LET RECURSIVE Sum(_)
                 Sum(j) == IF j = 0 THEN 0 ELSE x_samples[j].n + Sum(j - 1)
             IN Sum(Len(x_samples))

Perms(n) == {f \in [1..n -> 1..n] : \A a, b \in 1..n : f[a] = f[b] => a = b}

Permute(sq, f) == [j \in 1..Len(sq) |-> sq[f[j]]]

\* the arguments with the sample sequence permuted, in every way
Permuted(a) == {[a EXCEPT !.symbols = Permute(a.symbols, f)] : f \in Perms(Len(a.symbols))}

\* floor(a / b) for b # 0
Quot(a, b) == IF b > 0 THEN a \div b ELSE (-a) \div (-b)

\* the mapped coordinate c (quarter pixels) is at or beyond the limit (pixels)
Beyond(c, limit) == c.k = "inf" \/ (c.k = "fin" /\ c.v >= 4 * limit)

\* a sample whose mapped coordinate satisfies x >= W or y >= H
OutOfImage(s) ==
    \/ Beyond(MapX(s, q_range, img_resolution), W)
    \/ Beyond(MapY(s, i_range, img_resolution), H)

InImage(s) == ~OutOfImage(s)

(***************************************************************************)
(* C1.  Normalization law.                                                 *)
(***************************************************************************)
\* r = floor(255 * c / m) for counts c <= m, without dividing
FloorLawInt(r, c, m) == r * m <= FullScale * c /\ FullScale * c < (r + 1) * m

\* the same for float64 cells; no raster value obeys the law against a nan or zero maximum
FloorLawFloat(r, c, m) ==
    /\ BGE(BMul(c, FullScale), BMul(m, r))
    /\ ~BGE(BMul(c, FullScale), BMul(m, r + 1))

RasterObeysLaw ==
    IF Gray
    THEN \A p \in Pixels(img_resolution) :
            FloorLawInt(img_grid[p], bin_grid[p], MaxInt(bin_grid))
    ELSE /\ ~HasNaN(power_grid)
         /\ \A p \in Pixels(img_resolution) :
                FloorLawFloat(img_grid[p], power_grid[p], MaxFloat(power_grid))

\* C1: whenever at least one sample survived the boundary filter, every cell of
\* the raster handed to the writer is floor(255 * cell / max(grid)) of the
\* accumulated grid, and some pixel of it is 255.
C1_NormalizationLaw ==
    (Rastered /\ KeptCount > 0) =>
        /\ RasterObeysLaw
        /\ \E p \in Pixels(img_resolution) : img_grid[p] = FullScale
        /\ \A p \in Pixels(img_resolution) : img_grid[p] <= FullScale

(***************************************************************************)
(* C2.  A grid whose maximum is zero.                                      *)
(***************************************************************************)
GridMaxIsZero ==
    IF Gray THEN MaxInt(bin_grid) = 0
    ELSE ~HasNaN(power_grid) /\ MaxFloat(power_grid) = Zero

\* C2: once accumulation has ended with a grid whose maximum is zero, the
\* invocation goes nowhere but to an EmptyOrZeroGridError outcome, and the
\* image writer is never invoked.
C2_ZeroGridIsAnError ==
    ((Accumulated \/ (pc = "error" /\ error # "IndexError")) /\ GridMaxIsZero) =>
        /\ pc = "error" => error = "EmptyOrZeroGridError"
        /\ pc # "done"
        /\ writer_calls = 0
        /\ file = <<>>

(***************************************************************************)
(* C3.  An axis range with min >= max.                                     *)
(***************************************************************************)
InvalidRange == i_range[1] >= i_range[2] \/ q_range[1] >= q_range[2]

GridUntouched ==
    /\ pc \in {"bin", "normalize", "save", "done"} /\ Gray =>
            \A p \in Pixels(img_resolution) : bin_grid[p] = 0
    /\ pc \in {"accumulate", "normalize", "save", "done"} /\ ~Gray =>
            \A p \in Pixels(img_resolution) : power_grid[p] = Zero

\* C3: with min >= max in i_range or q_range, no grid cell is ever incremented,
\* the writer is never invoked, nothing is written, and the invocation can only
\* end in an InvalidRangeError outcome.
C3_InvalidRangeFailsFast ==
    InvalidRange =>
        /\ GridUntouched
        /\ writer_calls = 0
        /\ file = <<>>
        /\ pc # "done"
        /\ pc = "error" => error = "InvalidRangeError"

(***************************************************************************)
(* C6.  The indices the binning loop uses.                                 *)
(***************************************************************************)
\* C6: in grayscale, when the binning loop indexes the grid, every retained
\* sample has a floored index with 0 <= x < W and 0 <= y < H.
C6_RetainedIndicesInBounds ==
    (Gray /\ pc = "bin") =>
        \A j \in 1..Len(x_samples) :
            /\ 0 <= x_samples[j].v /\ x_samples[j].v < W
            /\ 0 <= y_samples[j].v /\ y_samples[j].v < H

(***************************************************************************)
(* C9.  Counts.                                                            *)
(***************************************************************************)
\* the number of kept samples whose floored index is the pixel p
CountAt(p) ==
    LET RECURSIVE Sum(_)
        Sum(j) == IF j = 0 THEN 0
                  ELSE (IF <<x_samples[j].v, y_samples[j].v>> = p THEN x_samples[j].n ELSE 0)
                       + Sum(j - 1)
    IN Sum(Len(x_samples))

RECURSIVE SumCells(_, _)
SumCells(grid, ps) ==
    IF ps = {} THEN 0
    ELSE LET p == CHOOSE q \in ps : TRUE IN grid[p] + SumCells(grid, ps \ {p})

AllIndicesInBounds ==
    \A j \in 1..Len(x_samples) :
        /\ 0 <= x_samples[j].v /\ x_samples[j].v < W
        /\ 0 <= y_samples[j].v /\ y_samples[j].v < H

\* C9: in grayscale, when all kept samples have in-bounds non-negative indices,
\* after the binning loop every cell holds the number of kept samples with that
\* floored index and the cells sum to the number of kept samples, however many
\* samples fall in one pixel.
C9_CountsAreExact ==
    (Gray /\ Accumulated /\ AllIndicesInBounds) =>
        /\ \A p \in Pixels(img_resolution) : bin_grid[p] = CountAt(p)
        /\ SumCells(bin_grid, Pixels(img_resolution)) = KeptCount

(***************************************************************************)
(* C10.  The declared window.                                              *)
(***************************************************************************)
ValidRanges == i_range[1] < i_range[2] /\ q_range[1] < q_range[2]

\* i_min <= I < i_max and q_min < Q <= q_max
InDeclaredWindow(s) ==
    /\ i_range[1] <= s.re /\ s.re < i_range[2]
    /\ q_range[1] < s.im /\ s.im <= q_range[2]

\* 0 <= c < limit for a mapped coordinate c in quarter pixels
Inside(c, limit) == c.k = "fin" /\ 0 <= c.v /\ c.v < 4 * limit

\* C10: with min < max on both axes, once the boundary filter has run, a sample
\* sequence lying in the declared window is retained whole, each sample at a
\* coordinate with 0 <= x < W and 0 <= y < H.
C10_WindowIsRetained ==
    (ValidRanges /\ pc \in {"cast", "setup"} /\ \A j \in 1..Len(symbols) : InDeclaredWindow(symbols[j])) =>
        /\ Len(x_samples) = Len(symbols)
        /\ \A j \in 1..Len(x_samples) : Inside(x_samples[j], W) /\ Inside(y_samples[j], H)

(***************************************************************************)
(* C7.  One sample.                                                        *)
(***************************************************************************)
SingleSample == Gray /\ Len(symbols) = 1 /\ symbols[1].n = 1

\* [floor(-(q - q_max) * W / (q_max - q_min)), floor((i + |i_min|) * H / (i_max - i_min))]
PixelOf(s) ==
    <<Quot((-(s.im - q_range[2])) * W, q_range[2] - q_range[1]),
      Quot((s.re + Abs(i_range[1])) * H, i_range[2] - i_range[1])>>

\* the single sample survives the filter with non-negative coordinates
Survives ==
    /\ q_range[2] # q_range[1]
    /\ i_range[2] # i_range[1]
    /\ PixelOf(symbols[1]) \in Pixels(img_resolution)

OnePixel(p, v) == [q \in Pixels(img_resolution) |-> IF q = p THEN v ELSE 0]

IsScenario ==
    /\ symbols = <<Run(3, 3, 1)>>
    /\ i_range = <<-7, 7>>
    /\ q_range = <<-7, 7>>
    /\ img_resolution = <<14, 14>>

\* C7: for a single sample that survives the boundary filter with non-negative
\* coordinates, grayscale raises nothing before the writer, the grid holds 1 at
\* the pixel of the formula and 0 elsewhere, the raster 255 there and 0
\* elsewhere, and that raster is what is written; 3+3j under ranges (-7, 7) and
\* resolution (14, 14) is pixel [4, 10].
C7_SingleSamplePixel ==
    (SingleSample /\ Survives) =>
        /\ pc = "error" => error = "ImageWriteError"
        /\ Accumulated => bin_grid = OnePixel(PixelOf(symbols[1]), 1)
        /\ Rastered => img_grid = OnePixel(PixelOf(symbols[1]), FullScale)
        /\ pc = "done" => file = <<OnePixel(PixelOf(symbols[1]), FullScale)>>
        /\ IsScenario => PixelOf(symbols[1]) = <<4, 10>>

\* the scenario's image has been written, with its one lit pixel at [4, 10]
C7_Witness ==
    /\ Gray /\ IsScenario /\ pc = "done"
    /\ bin_grid[<<4, 10>>] = 1
    /\ file[1][<<4, 10>>] = FullScale

(***************************************************************************)
(* C4.  Boundary exclusion.                                                *)
(***************************************************************************)
\* the sample sequence with every sample of x >= W or y >= H deleted
Retained(syms) == SelectSeq(syms, InImage)

\* the coordinates of a sequence, mapped (and floored in grayscale), not filtered
Unfiltered(syms) ==
    LET m == StageMap(syms, i_range, q_range, img_resolution)
    IN IF Gray THEN StageFloor(m) ELSE m

\* C4: after the boundary filter x_samples and y_samples are the coordinates of
\* the samples with x < W and y < H, in order and pair by pair; the accumulated
\* grid (or the IndexError) is that of the sequence with the other samples
\* deleted, accumulated without any filter.
C4_BoundaryExclusion ==
    /\ pc \in {"cast", "setup"} => <<x_samples, y_samples>> = Unfiltered(Retained(symbols))
    /\ \A nanAs \in NaNAsInt :
        (/\ Gray /\ pc \in {"bin", "normalize", "error"} /\ error # "ImageWriteError"
         /\ <<x_samples, y_samples>> = Kept(CurArgs, nanAs)) =>
                LET r == BinLoop(StageCast(Unfiltered(Retained(symbols)), nanAs), img_resolution)
                IN /\ <<x_samples, y_samples>> = StageCast(Unfiltered(Retained(symbols)), nanAs)
                   /\ pc = "normalize" => r = [error |-> "none", grid |-> bin_grid]
                   /\ pc = "error" => r.error = error
    /\ (~Gray /\ pc = "normalize") =>
            power_grid = AccLoop(Unfiltered(Retained(symbols)), power, decay, img_resolution)

\* accumulation has ended on a sequence of which some samples were dropped and some kept
C4_Witness ==
    /\ pc = "normalize"
    /\ Len(Retained(symbols)) < Len(symbols)
    /\ Len(Retained(symbols)) > 0
    /\ Len(x_samples) = Len(Retained(symbols))

(***************************************************************************)
(* C5.  The order of the samples.                                          *)
(***************************************************************************)
\* the grid a permuted invocation b accumulates, or its IndexError
GridOf(b, nanAs) ==
    IF b.variant = "grayscale"
    THEN BinLoop(Kept(b, nanAs), b.img_resolution)
    ELSE [error |-> "none",
          grid |-> AccLoop(Kept(b, nanAs), b.power, b.decay, b.img_resolution)]

\* the rasters the grid g can be normalized to
RastersOf(g) == IF Gray THEN NormalizeBin(g) ELSE NormalizeKernel(g)

\* the grids of all permutations of the invocation under way
PermutedGrids(nanAs) == {GridOf(b, nanAs) : b \in Permuted(CurArgs)}

\* the build's conversion of nan to int, as far as the kept coordinates show it
CastsAs(nanAs) == Gray => <<x_samples, y_samples>> = Kept(CurArgs, nanAs)

Within1(r, q) == \A p \in DOMAIN r : r[p] - q[p] \in {-1, 0, 1}

StagesBeforeSave ==
    IF Gray
    THEN <<"map", "floor", "mask_x", "mask_y", "cast">>
         \o (IF Len(x_samples) = 0 THEN <<>> ELSE <<"bin">>) \o <<"normalize">>
    ELSE <<"map", "mask_x", "mask_y", "setup">>
         \o (IF Len(x_samples) = 0 THEN <<>> ELSE <<"accumulate">>) \o <<"normalize">>

\* C8 as stated: the writer is invoked at most once, after all other stages,
\* and not at all in an invocation that ends in an error.
C8_WriterOnlyOnSuccess ==
    /\ writer_calls <= 1
    /\ writer_calls = 1 => pc = "done" /\ steps = Append(StagesBeforeSave, "save")
    /\ pc = "error" => writer_calls = 0

\* C8 amended: the writer is invoked at most once and only as the last step,
\* after mapping, filtering, accumulation and normalization; an invocation that
\* ends in an error raised before that step has not invoked it and has written
\* nothing; the one error that follows an invocation of the writer is the
\* writer's own.
C8_WriterLast ==
    /\ writer_calls <= 1
    /\ writer_calls = 1 =>
        /\ pc \in {"done", "error"}
        /\ pc = "done" => steps = Append(StagesBeforeSave, "save")
        /\ pc = "error" => error = "ImageWriteError" /\ steps = StagesBeforeSave
    /\ (pc = "error" /\ error # "ImageWriteError") => writer_calls = 0 /\ file = <<>>
    /\ pc \notin {"done", "error"} => writer_calls = 0 /\ file = <<>>
    /\ file # <<>> => pc = "done" /\ file = <<img_grid>>

\* the writer has been invoked, once, at the end of a complete invocation
C8_Witness ==
    /\ pc = "done" /\ writer_calls = 1
    /\ steps = Append(StagesBeforeSave, "save")
    /\ KeptCount > 0

=============================================================================
